---- MODULE Spec2Model ----
(***************************************************************************)
(* A model of scarypi.py: the animation engine (Animation,                 *)
(* LinearAnimation, AnimationGroup, AnimationSequence, Look, Blink,        *)
(* GlowEyes, Wait) and the Eye pixel model.                                *)
(*                                                                         *)
(* Time is in whole milliseconds.  LinearAnimation.tick computes           *)
(* (now - start).total_seconds() * 1000 as a float; for elapsed times of   *)
(* 0..1000 whole milliseconds that product is exact, and the model keeps   *)
(* its timestamps inside that range.  A progress value pct is kept as the  *)
(* exact fraction n/d.                                                     *)
(***************************************************************************)
EXTENDS Integers, Sequences, FiniteSets, TLC

VARIABLES
  heap,      \* the animation objects, by identity (1..Len(heap))
  root,      \* the animation the driver holds (0: none)
  eyes,      \* the Eye objects: pixels, pupil, eyelids
  contrast,  \* the last level passed to device.contrast
  err,       \* TRUE once a call has raised (TypeError on start = None)
  hist,      \* per animation: what its last call saw and did (history)
  last       \* the driver's last call

vars == <<heap, root, eyes, contrast, err, hist, last>>

(***************************************************************************)
(* Bounds of the model.                                                    *)
(***************************************************************************)
MaxTime == 4      \* a leaf held by the driver is ticked at 0..MaxTime
MaxNested == 2    \* a combinator held by the driver is ticked at 0..MaxNested
MaxBegin == 1     \* the driver calls begin at 0..MaxBegin
MaxDur  == 3      \* durations of the leaves are 1..MaxDur
MaxOff  == 2      \* Look destinations reach MaxOff beyond the 0..7 grid
\* the largest denominator of the progress values the steps of an eye's
\* animations are called with
MaxDen  == 9
\* the tick loop is followed until MaxClock ms after a refill
MaxClock == 10000

\* TICK_SECONDS, in ms, and the default durations of the animations
TickMs  == 100
LookMs  == 300
BlinkMs == 500
GlowMs  == 300
WaitMs  == 300

(***************************************************************************)
(* Values standing for Python's None.                                      *)
(***************************************************************************)
NoTime == -1
NoAnim == 0
NoEye  == "none"

EyeNames == {"left", "right"}

(***************************************************************************)
(* Arithmetic as Python does it.                                           *)
(***************************************************************************)
\* int(a/b) for b > 0: truncation toward zero.
Trunc(a, b) == IF a >= 0 THEN a \div b ELSE -((-a) \div b)

Max(a, b) == IF a >= b THEN a ELSE b
Min(a, b) == IF a <= b THEN a ELSE b

RECURSIVE Pow2(_)
Pow2(k) == IF k = 0 THEN 1 ELSE 2 * Pow2(k - 1)

\* bit k of the byte v
Bit(v, k) == (v \div Pow2(k)) % 2

\* v | (1 << k)
SetBit(v, k) == IF Bit(v, k) = 1 THEN v ELSE v + Pow2(k)

\* v & ~(1 << k)
ClearBit(v, k) == IF Bit(v, k) = 1 THEN v - Pow2(k) ELSE v

(***************************************************************************)
(* Point and Eye.                                                          *)
(***************************************************************************)
Point(x, y) == [x |-> x, y |-> y]

\* Eye.eye_ball, rows 0..7 (a Python list, here indexed 1..8).
eye_ball == <<60, 126, 255, 255, 255, 255, 126, 60>>

\* Eye.__init__
NewEye == [pixels |-> eye_ball, pupil |-> Point(4, 4), eyelids |-> -1]

\* Eye._on
EyeOn(eye, x, y) ==
  LET yy == y % 8
      xx == x % 8
  IN  [eye EXCEPT !.pixels[yy + 1] = SetBit(@, 7 - xx)]

\* Eye._off
EyeOff(eye, x, y) ==
  LET yy == y % 8
      xx == x % 8
  IN  [eye EXCEPT !.pixels[yy + 1] = ClearBit(@, 7 - xx)]

\* Eye._row_on
EyeRowOn(eye, y) == [eye EXCEPT !.pixels[(y % Len(eye.pixels)) + 1] = 255]

\* Eye._row_off
EyeRowOff(eye, y) == [eye EXCEPT !.pixels[(y % Len(eye.pixels)) + 1] = 0]

\* Eye._look: the pupil becomes pos, wrapped on both axes.
EyeLookNoWrap(eye, pos) == [eye EXCEPT !.pupil = Point(pos.x, pos.y)]

EyeLook(eye, pos) == [eye EXCEPT !.pupil = Point(pos.x % 8, pos.y % 8)]

\* Eye._eyelids
EyeEyelidsNoClamp(eye, offset) == [eye EXCEPT !.eyelids = offset]

EyeEyelids(eye, offset) == [eye EXCEPT !.eyelids = Max(-1, Min(offset, 3))]

\* the loop of Eye.image over i in xrange(0, eyelids + 1), from i on
RECURSIVE EyelidRows(_, _)
EyelidRows(eye, i) ==
  IF i > eye.eyelids THEN eye
  ELSE EyelidRows(EyeRowOff(EyeRowOff(eye, i), 7 - i), i + 1)

\* Eye.image: the eye after the call; its pixels are the bytes of the image.
EyeImageNoReset(eye) ==
  LET e1 == EyeOff(eye, eye.pupil.x - 1, eye.pupil.y - 1)
      e2 == EyeOff(e1, e1.pupil.x, e1.pupil.y - 1)
      e3 == EyeOff(e2, e2.pupil.x - 1, e2.pupil.y)
      e4 == EyeOff(e3, e3.pupil.x, e3.pupil.y)
  IN  IF e4.eyelids >= 0 THEN EyelidRows(e4, 0) ELSE e4

EyeImage(eye) ==
  LET e0 == [eye EXCEPT !.pixels = eye_ball]
      e1 == EyeOff(e0, e0.pupil.x - 1, e0.pupil.y - 1)
      e2 == EyeOff(e1, e1.pupil.x, e1.pupil.y - 1)
      e3 == EyeOff(e2, e2.pupil.x - 1, e2.pupil.y)
      e4 == EyeOff(e3, e3.pupil.x, e3.pupil.y)
  IN  IF e4.eyelids >= 0 THEN EyelidRows(e4, 0) ELSE e4

(***************************************************************************)
(* The world the animations act on, passed through every call:             *)
(* [heap, eyes, contrast, err, hist].                                      *)
(***************************************************************************)
Snap(w) == [eyes |-> w.eyes, contrast |-> w.contrast]

\* History of an animation that has not been called yet.  made: the children
\* it was constructed with; lid: the eyelid offset it wrote last, if any;
\* same: its last tick left the eyes and the contrast as they were;
\* popped, stepped: the child its last tick began, and ticked;
\* levels: the contrast levels its last writing _animate passed to the device;
\* begins: how often it has been begun (0, 1, or 2 for more than once).
NewHist(w, made) ==
  [ticked |-> FALSE, lastOp |-> "none", now |-> NoTime, donePre |-> FALSE,
   same |-> TRUE, lid |-> <<>>, levels |-> <<>>, begins |-> 0,
   popped |-> NoAnim, stepped |-> NoAnim, made |-> made]

\* Animation.__init__, with the fields the subclasses add
NewAnimation(kind) ==
  [kind |-> kind, start |-> NoTime, done |-> FALSE, duration_ms |-> 0,
   eye |-> NoEye, origin |-> Point(0, 0), dest |-> Point(0, 0),
   dx |-> 0, dy |-> 0, animations |-> <<>>, active |-> NoAnim]

\* A new object on the heap; its identity is Len(heap).
Alloc(w, a) ==
  [w EXCEPT !.heap = Append(@, a),
            !.hist = Append(@, NewHist(w, a.animations))]

\* Look.__init__ (Eye.look): origin is the eye's pupil at construction.
NewLook(w, e, where, duration_ms) ==
  LET origin == w.eyes[e].pupil
      dx     == where.x - origin.x
      dy     == where.y - origin.y
  IN  [NewAnimation("Look") EXCEPT
         !.duration_ms = duration_ms, !.eye = e,
         !.origin = origin, !.dest = where,
         !.dx = dx, !.dy = dy,
         !.done = (dx = 0 /\ dy = 0)]

MkLook(w, e, where, duration_ms) == Alloc(w, NewLook(w, e, where, duration_ms))

\* Blink.__init__ (Eye.blink)
MkBlink(w, e, duration_ms) ==
  Alloc(w, [NewAnimation("Blink") EXCEPT
              !.duration_ms = duration_ms, !.eye = e])

\* GlowEyes.__init__
MkGlow(w, duration_ms) ==
  Alloc(w, [NewAnimation("Glow") EXCEPT !.duration_ms = duration_ms])

\* Wait.__init__(self, eye, duration_ms): the first argument is unused.
MkWait(w, e, duration_ms) ==
  Alloc(w, [NewAnimation("Wait") EXCEPT !.duration_ms = duration_ms])

\* AnimationGroup.__init__: done starts False whatever the children are.
MkGroup(w, children) ==
  Alloc(w, [NewAnimation("Group") EXCEPT !.animations = children])

\* AnimationSequence.__init__
MkSequence(w, children) ==
  Alloc(w, [NewAnimation("Seq") EXCEPT !.animations = children])

IsLeaf(a) == a.kind \in {"Look", "Blink", "Glow", "Wait"}

(***************************************************************************)
(* _animate of the leaves.  pct = [n, d] stands for the float n/d.         *)
(***************************************************************************)
\* Look._animate
LookAnimateNoGuard(w, id, pct) ==
  LET a    == w.heap[id]
      curr == Point(Trunc(a.origin.x * pct.d + a.dx * pct.n, pct.d),
                    Trunc(a.origin.y * pct.d + a.dy * pct.n, pct.d))
  IN  [w EXCEPT !.eyes[a.eye] = EyeLook(@, curr)]

LookAnimate(w, id, pct) ==
  LET a    == w.heap[id]
      curr == Point(Trunc(a.origin.x * pct.d + a.dx * pct.n, pct.d),
                    Trunc(a.origin.y * pct.d + a.dy * pct.n, pct.d))
  IN  IF a.done THEN w
      ELSE [w EXCEPT !.eyes[a.eye] = EyeLook(@, curr)]

\* eye._eyelids(offset) called by the Blink id
BlinkWrite(w, id, offset) ==
  LET e == w.heap[id].eye
      n == EyeEyelids(w.eyes[e], offset)
  IN  [w EXCEPT !.eyes[e] = n, !.hist[id].lid = <<n.eyelids>>]

\* int(4 * (pct / 0.49) + 0.5) and int(4 - (4 * ((pct - 0.5) / 0.49) + 0.5))
BlinkOffset(pct) ==
  IF 2 * pct.n < pct.d
    THEN Trunc(800 * pct.n + 49 * pct.d, 98 * pct.d)
    ELSE Trunc(743 * pct.d - 800 * pct.n, 98 * pct.d)

\* Blink._animate
BlinkAnimateNoReopen(w, id, pct) ==
  IF w.heap[id].done THEN w ELSE BlinkWrite(w, id, BlinkOffset(pct))

BlinkAnimate(w, id, pct) ==
  IF w.heap[id].done THEN w
  ELSE LET w1 == BlinkWrite(w, id, BlinkOffset(pct))
       IN  IF pct.n >= pct.d THEN BlinkWrite(w1, id, -1) ELSE w1

\* device.contrast(c) called by the GlowEyes id
GlowWrite(w, id, c) ==
  [w EXCEPT !.contrast = c, !.hist[id].levels = Append(@, c)]

\* int(30 + 120 * (pct / 0.49)) and int(150 - 120 * ((pct - 0.5) / 0.49))
GlowLevel(pct) ==
  IF 2 * pct.n < pct.d
    THEN Trunc(1470 * pct.d + 12000 * pct.n, 49 * pct.d)
    ELSE Trunc(26700 * pct.d - 24000 * pct.n, 98 * pct.d)

\* GlowEyes._animate
GlowAnimateNoReset(w, id, pct) ==
  IF w.heap[id].done THEN w
  ELSE GlowWrite([w EXCEPT !.hist[id].levels = <<>>], id, GlowLevel(pct))

GlowAnimate(w, id, pct) ==
  IF w.heap[id].done THEN w
  ELSE LET w1 == GlowWrite([w EXCEPT !.hist[id].levels = <<>>], id,
                           GlowLevel(pct))
       IN  IF pct.n >= pct.d THEN GlowWrite(w1, id, 30) ELSE w1

\* self._animate(pct), dispatched on the class; Wait inherits the empty one.
Animate(w, id, pct) ==
  CASE w.heap[id].kind = "Look"  -> LookAnimate(w, id, pct)
    [] w.heap[id].kind = "Blink" -> BlinkAnimate(w, id, pct)
    [] w.heap[id].kind = "Glow"  -> GlowAnimate(w, id, pct)
    [] OTHER                     -> w

(***************************************************************************)
(* begin and tick.  A call on a world in which an exception is already     *)
(* propagating does nothing (the rest of the caller is skipped).           *)
(***************************************************************************)
\* LinearAnimation.tick: now - None raises TypeError.
LinearTickResets(w, id, now) ==
  LET a  == w.heap[id]
      dt == now - a.start
  IN  IF a.start = NoTime THEN [w EXCEPT !.err = TRUE]
      ELSE IF dt <= 0 THEN w
      ELSE IF dt <= a.duration_ms
        THEN [Animate(w, id, [n |-> dt, d |-> a.duration_ms])
                EXCEPT !.heap[id].done = FALSE]
        ELSE [Animate(w, id, [n |-> 1, d |-> 1]) EXCEPT !.heap[id].done = TRUE]

LinearTickAtDuration(w, id, now) ==
  LET a  == w.heap[id]
      dt == now - a.start
  IN  IF a.start = NoTime THEN [w EXCEPT !.err = TRUE]
      ELSE IF dt <= 0 THEN w
      ELSE IF dt < a.duration_ms
        THEN Animate(w, id, [n |-> dt, d |-> a.duration_ms])
        ELSE [Animate(w, id, [n |-> 1, d |-> 1]) EXCEPT !.heap[id].done = TRUE]

LinearTickNoBail(w, id, now) ==
  LET a  == w.heap[id]
      dt == now - a.start
  IN  IF a.start = NoTime THEN [w EXCEPT !.err = TRUE]
      ELSE IF dt <= a.duration_ms
        THEN Animate(w, id, [n |-> dt, d |-> a.duration_ms])
        ELSE [Animate(w, id, [n |-> 1, d |-> 1]) EXCEPT !.heap[id].done = TRUE]

LinearTickExact(w, id, now) ==
  LET a  == w.heap[id]
      dt == now - a.start
  IN  IF a.start = NoTime THEN [w EXCEPT !.err = TRUE]
      ELSE IF dt <= 0 THEN w
      ELSE IF dt < a.duration_ms
        THEN Animate(w, id, [n |-> dt, d |-> a.duration_ms])
      ELSE IF dt = a.duration_ms
        THEN [Animate(w, id, [n |-> 1, d |-> 1]) EXCEPT !.heap[id].done = TRUE]
        ELSE Animate(w, id, [n |-> 1, d |-> 1])

LinearTick(w, id, now) ==
  LET a  == w.heap[id]
      dt == now - a.start
  IN  IF a.start = NoTime THEN [w EXCEPT !.err = TRUE]
      ELSE IF dt <= 0 THEN w
      ELSE IF dt <= a.duration_ms
        THEN Animate(w, id, [n |-> dt, d |-> a.duration_ms])
        ELSE [Animate(w, id, [n |-> 1, d |-> 1]) EXCEPT !.heap[id].done = TRUE]

\* What the history keeps of a completed tick of id: w before, w1 after.
Ticked(w, w1, id, now) ==
  IF w1.err THEN w1
  ELSE [w1 EXCEPT !.hist[id].ticked = TRUE, !.hist[id].lastOp = "tick",
                  !.hist[id].now = now, !.hist[id].donePre = w.heap[id].done,
                  !.hist[id].same = (Snap(w) = Snap(w1))]

RECURSIVE Begin(_, _, _), BeginAll(_, _, _), Tick(_, _, _), TickAll(_, _, _)

\* for a in animations: a.begin(now)
BeginAll(w, ids, now) ==
  IF ids = <<>> THEN w ELSE BeginAll(Begin(w, Head(ids), now), Tail(ids), now)

\* Animation.begin, AnimationGroup.begin
BeginSelfOnly(w, id, now) ==
  IF w.err THEN w
  ELSE [w EXCEPT !.heap[id].start = now,
                 !.hist[id].lastOp = "begin",
                 !.hist[id].begins = Min(@ + 1, 2)]

Begin(w, id, now) ==
  IF w.err THEN w
  ELSE LET w1 == [w EXCEPT !.heap[id].start = now,
                           !.hist[id].lastOp = "begin",
                           !.hist[id].begins = Min(@ + 1, 2)]
       IN  IF w.heap[id].kind = "Group"
             THEN BeginAll(w1, w.heap[id].animations, now)
             ELSE w1

\* for a in animations: a.tick(now)
TickAll(w, ids, now) ==
  IF ids = <<>> THEN w ELSE TickAll(Tick(w, Head(ids), now), Tail(ids), now)

\* AnimationGroup.tick
GroupTickAnyDone(w, id, now) ==
  LET kids == w.heap[id].animations
      w1   == TickAll(w, kids, now)
  IN  IF w1.err THEN w1
      ELSE [w1 EXCEPT !.heap[id].done =
              \E i \in 1..Len(kids) : w1.heap[kids[i]].done]

GroupTickSkipsDone(w, id, now) ==
  LET kids == w.heap[id].animations
      live == SelectSeq(kids, LAMBDA k : ~w.heap[k].done)
      w1   == TickAll(w, live, now)
  IN  IF w1.err THEN w1
      ELSE [w1 EXCEPT !.heap[id].done =
              \A i \in 1..Len(kids) : w1.heap[kids[i]].done]

GroupTick(w, id, now) ==
  LET kids == w.heap[id].animations
      w1   == TickAll(w, kids, now)
  IN  IF w1.err THEN w1
      ELSE [w1 EXCEPT !.heap[id].done =
              \A i \in 1..Len(kids) : w1.heap[kids[i]].done]

\* AnimationSequence.tick
SequenceTickNoReturn(w, id, now) ==
  LET w0 == [w EXCEPT !.hist[id].popped = NoAnim, !.hist[id].stepped = NoAnim]
      a  == w0.heap[id]
      w1 == IF a.active # NoAnim /\ w0.heap[a.active].done
              THEN [w0 EXCEPT !.heap[id].active = NoAnim] ELSE w0
      a1 == w1.heap[id]
      w2 == IF a1.active = NoAnim /\ a1.animations # <<>>
              THEN Begin([w1 EXCEPT !.heap[id].active = Head(a1.animations),
                                    !.heap[id].animations = Tail(a1.animations),
                                    !.hist[id].popped = Head(a1.animations)],
                         Head(a1.animations), now)
              ELSE w1
      a2 == w2.heap[id]
  IN  IF a2.active = NoAnim
        THEN [w2 EXCEPT !.heap[id].done = TRUE]
        ELSE Tick([w2 EXCEPT !.hist[id].stepped = a2.active], a2.active, now)

SequenceTickNoWait(w, id, now) ==
  LET w0 == [w EXCEPT !.hist[id].popped = NoAnim, !.hist[id].stepped = NoAnim]
      a  == w0.heap[id]
  IN  IF a.animations # <<>>
        THEN Begin([w0 EXCEPT !.heap[id].active = Head(a.animations),
                              !.heap[id].animations = Tail(a.animations),
                              !.hist[id].popped = Head(a.animations)],
                   Head(a.animations), now)
      ELSE IF a.active = NoAnim \/ w0.heap[a.active].done
        THEN [w0 EXCEPT !.heap[id].active = NoAnim, !.heap[id].done = TRUE]
      ELSE Tick([w0 EXCEPT !.hist[id].stepped = a.active], a.active, now)

SequenceTick(w, id, now) ==
  LET w0 == [w EXCEPT !.hist[id].popped = NoAnim, !.hist[id].stepped = NoAnim]
      a  == w0.heap[id]
      \* End current animation, if done.
      w1 == IF a.active # NoAnim /\ w0.heap[a.active].done
              THEN [w0 EXCEPT !.heap[id].active = NoAnim] ELSE w0
      a1 == w1.heap[id]
  IN  IF a1.active = NoAnim /\ a1.animations # <<>>
        \* Pop next animation from queue and start, then return.
        THEN Begin([w1 EXCEPT !.heap[id].active = Head(a1.animations),
                              !.heap[id].animations = Tail(a1.animations),
                              !.hist[id].popped = Head(a1.animations)],
                   Head(a1.animations), now)
      ELSE IF a1.active = NoAnim
        \* No more animations => done.
        THEN [w1 EXCEPT !.heap[id].done = TRUE]
      ELSE Tick([w1 EXCEPT !.hist[id].stepped = a1.active], a1.active, now)

\* a.tick(now), dispatched on the class of a
Tick(w, id, now) ==
  IF w.err THEN w
  ELSE Ticked(w,
              CASE w.heap[id].kind = "Group" -> GroupTick(w, id, now)
                [] w.heap[id].kind = "Seq"   -> SequenceTick(w, id, now)
                [] OTHER                     -> LinearTick(w, id, now),
              id, now)

(***************************************************************************)
(* The state as a world, and back.                                         *)
(***************************************************************************)
World == [heap |-> heap, eyes |-> eyes, contrast |-> contrast, err |-> err,
          hist |-> hist]

Becomes(w) ==
  /\ heap' = w.heap
  /\ eyes' = w.eyes
  /\ contrast' = w.contrast
  /\ err' = w.err
  /\ hist' = w.hist

\* The driver's last call: op on the root at time now, or _animate(pct), or
\* an Eye method on eye e, whose state before the call was pre.
Last(op, now, pct, e, pre) ==
  [op |-> op, now |-> now, pct |-> pct, eye |-> e, pre |-> pre]

NoPct == [n |-> 0, d |-> 1]
NoCall == Last("none", NoTime, NoPct, NoEye, NewEye)

\* main: two fresh eyes, device.contrast(30), no animation yet.
World0 ==
  [heap |-> <<>>, eyes |-> [e \in EyeNames |-> NewEye], contrast |-> 30,
   err |-> FALSE, hist |-> <<>>]

(***************************************************************************)
(* Animations under test: a leaf, or a combinator over leaves, built the   *)
(* way the effects of the program build theirs (children first).           *)
(***************************************************************************)
Durations == 1..MaxDur

LeafSpec(kind, e, where, d) == [kind |-> kind, eye |-> e, where |-> where, d |-> d]

\* destinations under test: the pupil itself, a point of the grid, a point
\* beyond it
Dests == {Point(4, 4), Point(6, 3), Point(-1, 9)}

Leaves ==
  {LeafSpec("Look", e, p, d) : e \in EyeNames, p \in Dests, d \in Durations}
  \cup {LeafSpec("Blink", e, Point(0, 0), d) : e \in EyeNames, d \in Durations}
  \cup {LeafSpec("Glow", NoEye, Point(0, 0), d) : d \in Durations}
  \cup {LeafSpec("Wait", NoEye, Point(0, 0), d) : d \in Durations}

\* the leaves the combinators under test are built from
Kids ==
  {LeafSpec("Look", "left", Point(4, 4), 1),
   LeafSpec("Look", "left", Point(6, 3), 2),
   LeafSpec("Blink", "left", Point(0, 0), 1),
   LeafSpec("Wait", NoEye, Point(0, 0), 1)}

\* the leaves the three-leaf combinators vary over
Kids2 ==
  {LeafSpec("Look", "left", Point(4, 4), 1),
   LeafSpec("Blink", "left", Point(0, 0), 1)}

MkLeaf(w, L) ==
  CASE L.kind = "Look"  -> MkLook(w, L.eye, L.where, L.d)
    [] L.kind = "Blink" -> MkBlink(w, L.eye, L.d)
    [] L.kind = "Glow"  -> MkGlow(w, L.d)
    [] OTHER            -> MkWait(w, L.eye, L.d)

\* The worlds after construction; the root is the last object allocated.
LeafWorlds == {MkLeaf(World0, L) : L \in Leaves}

GroupWorlds ==
  {MkGroup(World0, <<>>)}
  \cup {MkGroup(MkLeaf(MkLeaf(World0, A), B), <<1, 2>>) : A \in Kids, B \in Kids}

SequenceWorlds ==
  {MkSequence(World0, <<>>)}
  \cup {MkSequence(MkLeaf(MkLeaf(World0, A), B), <<1, 2>>) : A \in Kids, B \in Kids}

\* AnimationSequence(AnimationGroup(A, B), C), as CrossEyes is built
SequenceOfGroupWorlds ==
  {MkSequence(MkLeaf(MkGroup(MkLeaf(MkLeaf(World0, A), B), <<1, 2>>), C), <<3, 4>>) :
     A \in Kids, B \in Kids2, C \in Kids2}

\* AnimationSequence(A, AnimationSequence(B, C)), as the main sequence
\* holding an effect is built
SequenceOfSequenceWorlds ==
  {MkSequence(MkSequence(MkLeaf(MkLeaf(MkLeaf(World0, A), B), C), <<2, 3>>), <<1, 4>>) :
     A \in {LeafSpec("Blink", "left", Point(0, 0), 1)},
     B \in {LeafSpec("Blink", "left", Point(0, 0), 1)}, C \in Kids2}

\* AnimationGroup(AnimationSequence(A, B), C)
GroupOfSequenceWorlds ==
  {MkGroup(MkLeaf(MkSequence(MkLeaf(MkLeaf(World0, A), B), <<1, 2>>), C), <<3, 4>>) :
     A \in Kids2, B \in Kids2, C \in Kids}

Worlds ==
  LeafWorlds \cup GroupWorlds \cup SequenceWorlds \cup SequenceOfGroupWorlds
    \cup SequenceOfSequenceWorlds \cup GroupOfSequenceWorlds

(***************************************************************************)
(* Spec: a driver that holds one animation and calls begin and tick on it  *)
(* with timestamps in any order (time may stand still or run backwards, so *)
(* a child of a sequence may be begun at an earlier time than its          *)
(* predecessor was).                                                       *)
(***************************************************************************)
Times == IF IsLeaf(heap[root]) THEN 0..MaxTime ELSE 0..MaxNested
BeginTimes == 0..MaxBegin

Init ==
  \E w \in Worlds :
    /\ heap = w.heap
    /\ eyes = w.eyes
    /\ contrast = w.contrast
    /\ err = w.err
    /\ hist = w.hist
    /\ root = Len(w.heap)
    /\ last = NoCall

\* root.begin(now)
DoBegin(now) ==
  /\ ~err
  /\ Becomes(Begin(World, root, now))
  /\ last' = Last("begin", now, NoPct, NoEye, NewEye)
  /\ UNCHANGED root

\* root.tick(now)
DoTick(now) ==
  /\ ~err
  /\ Becomes(Tick(World, root, now))
  /\ last' = Last("tick", now, NoPct, NoEye, NewEye)
  /\ UNCHANGED root

Next ==
  \/ \E now \in BeginTimes : DoBegin(now)
  \/ \E now \in Times : DoTick(now)

Spec == Init /\ [][Next]_vars

(***************************************************************************)
(* Properties.                                                             *)
(***************************************************************************)
Ids == 1..Len(heap)
SeqIds == {id \in Ids : heap[id].kind = "Seq"}
GroupIds == {id \in Ids : heap[id].kind = "Group"}
LeafIds == {id \in Ids : IsLeaf(heap[id])}

Begun(id) == heap[id].start # NoTime

\* the elapsed time the last tick of the leaf id saw
Elapsed(id) == hist[id].now - heap[id].start

\* the last call on the animation id was a tick that returned
JustTicked(id) == hist[id].lastOp = "tick"

\* the number of children the sequence id has taken from its queue
Taken(id) == Len(hist[id].made) - Len(heap[id].animations)

\* C1: an AnimationSequence consumes its children in construction order.
\* The queue is always the rest of the construction list, exactly the
\* children taken from it have been begun, every child before the one taken
\* last is done, the child a tick call begins is the next of the list and no
\* child is ticked in that call (so its predecessor was done before the
\* call), the active child is the one taken last, and at most one child is
\* begun and not done.
C1_SequenceInOrder ==
  \A id \in SeqIds :
    LET made == hist[id].made
        n    == Len(made)
        k    == Taken(id)
    IN  /\ heap[id].animations = SubSeq(made, k + 1, n)
        /\ \A i \in 1..n : Begun(made[i]) <=> i <= k
        /\ \A i \in 1..n : i < k => heap[made[i]].done
        /\ heap[id].active # NoAnim => k >= 1 /\ heap[id].active = made[k]
        /\ hist[id].popped # NoAnim =>
             /\ k >= 1 /\ hist[id].popped = made[k]
             /\ hist[id].stepped = NoAnim
        /\ Cardinality({i \in 1..n : Begun(made[i]) /\ ~heap[made[i]].done}) <= 1

\* a sequence has begun its second child
C1_Witness ==
  \E id \in SeqIds :
    /\ Len(hist[id].made) >= 2
    /\ hist[id].popped = hist[id].made[2]
    /\ heap[hist[id].made[1]].kind # "Look"

\* C2: the tick call of a sequence that takes a child from the queue begins
\* it at the call's timestamp and does not tick it (nor anything else): the
\* child's first tick comes in a later call.
C2_BeginThenReturn ==
  \A id \in SeqIds :
    JustTicked(id) /\ hist[id].popped # NoAnim =>
      /\ heap[hist[id].popped].start = hist[id].now
      /\ ~hist[hist[id].popped].ticked
      /\ hist[id].stepped = NoAnim

\* a sequence's last tick call has taken a leaf that is not done
C2_Witness ==
  \E id \in SeqIds :
    /\ JustTicked(id) /\ hist[id].popped # NoAnim
    /\ IsLeaf(heap[hist[id].popped])
    /\ ~heap[hist[id].popped].done

AllKidsDone(id) ==
  \A i \in 1..Len(heap[id].animations) : heap[heap[id].animations[i]].done

\* C3 as claimed: in every state a group is done iff all its children are.
C3_Original == \A id \in GroupIds : heap[id].done <=> AllKidsDone(id)

\* C3, amended: once a group has been ticked it is done iff all its
\* children are done; until its first tick it is not done, whatever its
\* children are.
C3_GroupDoneAfterTick ==
  \A id \in GroupIds :
    IF hist[id].ticked THEN heap[id].done <=> AllKidsDone(id)
                       ELSE ~heap[id].done

\* a group that has been ticked and is done, one of its children a Blink
C3_Witness ==
  \E id \in GroupIds :
    /\ hist[id].ticked /\ heap[id].done
    /\ \E i \in 1..Len(heap[id].animations) :
         heap[heap[id].animations[i]].kind = "Blink"

PreDone(id) == heap[id].kind = "Look" /\ heap[id].dx = 0 /\ heap[id].dy = 0

\* C4 as claimed: after a tick with elapsed >= duration the leaf is done,
\* after a tick with elapsed < duration it is not.
C4_Original ==
  \A id \in LeafIds :
    JustTicked(id) =>
      /\ Elapsed(id) >= heap[id].duration_ms => heap[id].done
      /\ Elapsed(id) < heap[id].duration_ms /\ ~PreDone(id) => ~heap[id].done

\* C4, amended: a tick with elapsed > duration leaves the leaf done; a tick
\* with elapsed <= duration leaves done as it found it.
C4_DoneAfterDuration ==
  \A id \in LeafIds :
    JustTicked(id) =>
      heap[id].done = (hist[id].donePre \/ Elapsed(id) > heap[id].duration_ms)

\* a leaf ticked at exactly its duration, not done
C4_Witness ==
  \E id \in LeafIds :
    /\ JustTicked(id)
    /\ Elapsed(id) = heap[id].duration_ms
    /\ ~heap[id].done

\* C5: the done flag of every animation is monotone.
C5_DoneMonotone ==
  [][\A id \in Ids : heap[id].done => heap'[id].done]_vars

\* a combinator that was done is ticked again, with an earlier timestamp
C5_Witness ==
  /\ ~IsLeaf(heap[root])
  /\ heap[root].done /\ hist[root].donePre
  /\ hist[root].lastOp = "tick" /\ hist[root].now = 0
  /\ \E id \in LeafIds : hist[id].ticked /\ heap[id].done /\ ~PreDone(id)

\* C6: a tick of a begun leaf with now <= start changes nothing (done, the
\* eyes, the contrast) and raises nothing.
C6_NoOpAtOrBeforeStart ==
  /\ \A id \in LeafIds :
       JustTicked(id) /\ Elapsed(id) <= 0 =>
         hist[id].same /\ heap[id].done = hist[id].donePre
  /\ IsLeaf(heap[root]) /\ Begun(root) /\ last.op = "tick"
       /\ last.now <= heap[root].start => ~err /\ JustTicked(root)

\* a Look that has moved the pupil is ticked with now < start
C6_Witness ==
  /\ heap[root].kind = "Look" /\ ~PreDone(root)
  /\ JustTicked(root) /\ Elapsed(root) < 0
  /\ eyes[heap[root].eye].pupil # heap[root].origin

\* C7: a Look made with destination = pupil is done from construction on,
\* and no tick of it changes the eyes.
C7_LookNowhere ==
  \A id \in LeafIds :
    PreDone(id) =>
      /\ heap[id].done
      /\ JustTicked(id) => hist[id].same
      /\ id = root => eyes[heap[id].eye].pupil = heap[id].origin

\* such a Look is ticked, elapsed > 0, after a sibling has moved the pupil
C7_Witness ==
  \E id \in LeafIds :
    /\ PreDone(id)
    /\ JustTicked(id) /\ Elapsed(id) > 0
    /\ eyes[heap[id].eye].pupil # heap[id].origin

\* C9: the tick that ends a Blink, and any tick at progress 1.0, leaves -1
\* as the eyelid offset the Blink wrote last; a done Blink wrote -1 last.
C9_BlinkEndsOpen ==
  \A id \in LeafIds :
    heap[id].kind = "Blink" =>
      /\ heap[id].done => hist[id].lid = <<-1>>
      /\ JustTicked(id) /\ ~hist[id].donePre
           /\ Elapsed(id) >= heap[id].duration_ms => hist[id].lid = <<-1>>

\* a Blink is done
C9_Witness ==
  \E id \in LeafIds :
    heap[id].kind = "Blink" /\ heap[id].done /\ heap[id].duration_ms >= 2

(***************************************************************************)
(* SpecLook: one Look, made for any pupil of the grid and any destination  *)
(* up to MaxOff beyond it, whose _animate is called with any progress.     *)
(***************************************************************************)
Grid == {Point(x, y) : x \in 0..7, y \in 0..7}
WideGrid == {Point(x, y) : x \in (0 - MaxOff)..(7 + MaxOff),
                           y \in (0 - MaxOff)..(7 + MaxOff)}

\* progress values 0/d .. d/d
Pcts == {pct \in [n : 0..MaxDur, d : Durations] : pct.n <= pct.d}

InitLook ==
  \E p \in Grid, q \in WideGrid :
    LET w == MkLook([World0 EXCEPT !.eyes["left"].pupil = p], "left", q, MaxDur)
    IN  /\ heap = w.heap
        /\ eyes = w.eyes
        /\ contrast = w.contrast
        /\ err = w.err
        /\ hist = w.hist
        /\ root = 1
        /\ last = NoCall

\* root._animate(pct)
DoAnimate(pct) ==
  /\ Becomes(Animate(World, root, pct))
  /\ last' = Last("animate", NoTime, pct, NoEye, NewEye)
  /\ UNCHANGED root

NextLook == \E pct \in Pcts : DoAnimate(pct)

SpecLook == InitLook /\ [][NextLook]_vars

\* C8: for a Look with origin # destination, the step at progress 0 puts
\* the pupil at the origin and the step at progress 1 at the destination,
\* each coordinate modulo 8.
C8_LookEndpoints ==
  LET a == heap[root]
  IN  last.op = "animate" /\ (a.origin.x # a.dest.x \/ a.origin.y # a.dest.y) =>
        /\ last.pct.n = 0 =>
             eyes[a.eye].pupil = Point(a.origin.x % 8, a.origin.y % 8)
        /\ last.pct.n = last.pct.d =>
             eyes[a.eye].pupil = Point(a.dest.x % 8, a.dest.y % 8)

\* the step at progress 1 toward a destination left of and below the grid
C8_Witness ==
  /\ last.op = "animate" /\ last.pct.n = last.pct.d
  /\ heap[root].dest.x < 0 /\ heap[root].dest.y > 7
  /\ eyes["left"].pupil = Point(heap[root].dest.x + 8, heap[root].dest.y - 8)
  /\ eyes["left"].pupil # heap[root].origin

(***************************************************************************)
(* SpecEye: one Eye with any pupil of the grid and any eyelid offset, on   *)
(* which _look, _eyelids and image are called in any order.                *)
(***************************************************************************)
LidOffsets == -1..3

\* arguments of the calls: in and beyond the domain
LookArgs == {Point(4, 4), Point(0 - MaxOff, 7 + MaxOff)}
LidArgs == {-1 - MaxOff, 3 + MaxOff}

InitEye ==
  \E p \in Grid, l \in LidOffsets :
    /\ heap = <<>>
    /\ hist = <<>>
    /\ root = NoAnim
    /\ eyes = [World0.eyes EXCEPT !["left"].pupil = p, !["left"].eyelids = l]
    /\ contrast = World0.contrast
    /\ err = FALSE
    /\ last = NoCall

\* eye._look(pos)
CallLook(e, pos) ==
  /\ eyes' = [eyes EXCEPT ![e] = EyeLook(@, pos)]
  /\ last' = Last("look", NoTime, NoPct, e, NewEye)
  /\ UNCHANGED <<heap, root, contrast, err, hist>>

\* eye._eyelids(offset)
CallEyelids(e, offset) ==
  /\ eyes' = [eyes EXCEPT ![e] = EyeEyelids(@, offset)]
  /\ last' = Last("eyelids", NoTime, NoPct, e, NewEye)
  /\ UNCHANGED <<heap, root, contrast, err, hist>>

\* eye.image(); the history keeps the pupil and the eyelids it was called on
CallImage(e) ==
  /\ eyes' = [eyes EXCEPT ![e] = EyeImage(@)]
  /\ last' = Last("image", NoTime, NoPct, e, [eyes[e] EXCEPT !.pixels = eye_ball])
  /\ UNCHANGED <<heap, root, contrast, err, hist>>

NextEye ==
  \/ \E pos \in LookArgs : CallLook("left", pos)
  \/ \E offset \in LidArgs : CallEyelids("left", offset)
  \/ CallImage("left")

SpecEye == InitEye /\ [][NextEye]_vars

\* the pixel (x, y) of the image of an eye with pupil p and eyelid offset l
Lit(x, y, p, l) ==
  /\ Bit(eye_ball[y + 1], 7 - x) = 1
  /\ ~(x \in {(p.x - 1) % 8, p.x % 8} /\ y \in {(p.y - 1) % 8, p.y % 8})
  /\ ~(l >= 0 /\ (y <= l \/ y >= 7 - l))

\* C10: image() leaves in pixels the silhouette without the pupil block and
\* without the eyelid rows of the pupil and eyelid offset it was called on,
\* whatever pixels held before, and changes neither pupil nor eyelids.
C10_ImageIsSilhouette ==
  last.op = "image" =>
    LET eye == eyes[last.eye]
    IN  /\ eye.pupil = last.pre.pupil
        /\ eye.eyelids = last.pre.eyelids
        /\ Len(eye.pixels) = 8
        /\ \A y \in 0..7 :
             /\ eye.pixels[y + 1] \in 0..255
             /\ \A x \in 0..7 :
                  Bit(eye.pixels[y + 1], 7 - x) =
                    IF Lit(x, y, last.pre.pupil, last.pre.eyelids) THEN 1 ELSE 0

\* an image with the pupil block wrapped around both edges, eyelids open
C10_Witness ==
  /\ last.op = "image"
  /\ eyes["left"].pupil = Point(0, 0) /\ eyes["left"].eyelids = -1
  /\ eyes["left"].pixels = <<60, 126, 255, 255, 255, 255, 126, 60>>

(***************************************************************************)
(* The contrast levels of a Glow, and the ticks of done animations, under  *)
(* the driver Spec.                                                        *)
(***************************************************************************)
GlowIds == {id \in LeafIds : heap[id].kind = "Glow"}

\* C15: every contrast level a Glow passes to the device lies in 30..150.
\* (The code passes 27 at progress 1.0, before it sets 30.)
C15_Original ==
  \A id \in GlowIds :
    \A i \in 1..Len(hist[id].levels) : hist[id].levels[i] \in 30..150

\* C17: a tick of an AnimationGroup ticks every child with the same time,
\* done or not, and a tick of a leaf that was done before the call leaves
\* the pupils, the eyelid offsets and the contrast as they were, and the
\* leaf done.
C17_DoneChildInert ==
  /\ \A g \in GroupIds :
       JustTicked(g) =>
         \A i \in 1..Len(heap[g].animations) :
           /\ JustTicked(heap[g].animations[i])
           /\ hist[heap[g].animations[i]].now = hist[g].now
  /\ \A id \in LeafIds :
       JustTicked(id) /\ hist[id].donePre => hist[id].same /\ heap[id].done

\* a group was ticked while one child was done and a sibling on the same
\* eye was still running, past the done child's duration
C17_Witness ==
  \E g \in GroupIds :
    /\ JustTicked(g)
    /\ \E i, j \in 1..Len(heap[g].animations) :
         LET a == heap[g].animations[i]
             b == heap[g].animations[j]
         IN  /\ IsLeaf(heap[a]) /\ IsLeaf(heap[b])
             /\ heap[a].kind = "Look" /\ heap[b].kind = "Look"
             /\ hist[a].donePre /\ Elapsed(a) > heap[a].duration_ms
             /\ ~hist[b].donePre /\ ~hist[b].same
             /\ heap[a].eye = heap[b].eye

(***************************************************************************)
(* SpecSteps: the left eye under any succession of Looks and Blinks.  A    *)
(* Look is made from wherever the pupil is to a destination on or beyond   *)
(* the grid, a Blink is made, and _animate of the one made last is called  *)
(* with any progress (a Look with the progress values of short durations,  *)
(* a Blink with every n/d up to d = MaxDen, which includes the values      *)
(* whose interpolated offset is 4).                                        *)
(***************************************************************************)
FarDests ==
  {Point(4, 4), Point(6, 3), Point(0 - MaxOff, 7 + MaxOff),
   Point(7 + MaxOff, 0 - MaxOff)}

FinePcts == {pct \in [n : 0..MaxDen, d : 1..MaxDen] : pct.n <= pct.d}

\* the world with its animations forgotten (the caller drops its reference)
Forget(w) == [w EXCEPT !.heap = <<>>, !.hist = <<>>]

InitSteps ==
  LET w == MkBlink(World0, "left", MaxDur)
  IN  /\ heap = w.heap
      /\ eyes = w.eyes
      /\ contrast = w.contrast
      /\ err = w.err
      /\ hist = w.hist
      /\ root = 1
      /\ last = NoCall

\* left.look(q)
StartLook(q) ==
  /\ Becomes(MkLook(Forget(World), "left", q, MaxDur))
  /\ last' = NoCall
  /\ UNCHANGED root

\* left.blink()
StartBlink ==
  /\ heap[root].kind # "Blink"
  /\ Becomes(MkBlink(Forget(World), "left", MaxDur))
  /\ last' = NoCall
  /\ UNCHANGED root

\* Look._animate(pct)
StepLook(pct) ==
  /\ heap[root].kind = "Look"
  /\ DoAnimate(pct)

\* Blink._animate(pct)
StepBlink(pct) ==
  /\ heap[root].kind = "Blink"
  /\ DoAnimate(pct)

NextSteps ==
  \/ \E q \in FarDests : StartLook(q)
  \/ StartBlink
  \/ \E pct \in Pcts : StepLook(pct)
  \/ \E pct \in FinePcts : StepBlink(pct)

SpecSteps == InitSteps /\ [][NextSteps]_vars

\* C16: in every reachable state the pupil of each eye is on the grid and
\* its eyelid offset is in -1..3.
C16_EyeInDomain ==
  \A e \in EyeNames :
    /\ eyes[e].pupil.x \in 0..7
    /\ eyes[e].pupil.y \in 0..7
    /\ eyes[e].eyelids \in -1..3

\* a Blink step whose interpolated offset is 4 has acted, on an eye whose
\* pupil a Look to a destination beyond the grid has wrapped
C16_Witness ==
  /\ heap[root].kind = "Blink"
  /\ last.op = "animate"
  /\ BlinkOffset(last.pct) = 4
  /\ eyes["left"].eyelids = 3
  /\ eyes["left"].pupil = Point(1, 6)

(***************************************************************************)
(* The effects, and the tick loop.                                         *)
(***************************************************************************)
\* the object constructed last
Top(w) == Len(w.heap)

\* AnimationGroup(left.look(p, ms), right.look(q, ms))
LookBoth(w, p, q, ms) ==
  LET w1 == MkLook(w, "left", p, ms)
      w2 == MkLook(w1, "right", q, ms)
  IN  MkGroup(w2, <<Top(w1), Top(w2)>>)

\* AnimationGroup(left.blink(), right.blink())
BlinkBoth(w, ms) ==
  LET w1 == MkBlink(w, "left", ms)
      w2 == MkBlink(w1, "right", ms)
  IN  MkGroup(w2, <<Top(w1), Top(w2)>>)

\* Wait(ms): the one argument binds to eye, duration_ms keeps its default.
Wait1(w, ms) == MkWait(w, ms, WaitMs)

\* One AnimationGroup(left.look(p, ms), right.look(q, ms)) for each pair
\* <<p, q>> of pairs, in order: the objects are the two Looks and the group
\* of the first pair, then those of the second, and so on.  The result is
\* the world and the ids of the groups.
LookEach(w, pairs, ms) ==
  LET base == Len(w.heap)
      objs == [k \in 1..(3 * Len(pairs)) |->
                 LET i == (k + 2) \div 3
                 IN  CASE k % 3 = 1 -> NewLook(w, "left", pairs[i][1], ms)
                       [] k % 3 = 2 -> NewLook(w, "right", pairs[i][2], ms)
                       [] OTHER ->
                            [NewAnimation("Group") EXCEPT
                               !.animations = <<base + k - 2, base + k - 1>>]]
  IN  [w   |-> [w EXCEPT
                  !.heap = @ \o objs,
                  !.hist = @ \o [k \in 1..(3 * Len(pairs)) |->
                                   NewHist(w, objs[k].animations)]],
       ids |-> [i \in 1..Len(pairs) |-> base + 3 * i]]

CrossEyes(w, duration_ms) ==
  LET ms == duration_ms \div 3
      w1 == LookBoth(w, Point(6, 4), Point(2, 4), ms)
      w2 == Wait1(w1, ms)
      w3 == LookBoth(w2, Point(4, 4), Point(4, 4), ms)
  IN  MkSequence(w3, <<Top(w1), Top(w2), Top(w3)>>)

MethEyes(w, duration_ms) ==
  LET ms == duration_ms \div 3
      w1 == LookBoth(w, Point(2, 4), Point(6, 4), ms)
      w2 == Wait1(w1, ms)
      w3 == LookBoth(w2, Point(4, 4), Point(4, 4), ms)
  IN  MkSequence(w3, <<Top(w1), Top(w2), Top(w3)>>)

CrazyBlink(w, duration_ms) ==
  LET ms == duration_ms \div 2
      w1 == MkBlink(w, "left", ms)
      w2 == MkBlink(w1, "right", ms)
  IN  MkSequence(w2, <<Top(w1), Top(w2)>>)

LazyEye(w, e, duration_ms) ==
  LET ms == duration_ms \div 3
      w1 == MkLook(w, e, Point(4, 6), ms * 2)
      w2 == MkLook(w1, e, Point(4, 4), ms)
  IN  MkSequence(w2, <<Top(w1), Top(w2)>>)

CrazySpin(w, duration_ms) ==
  LET times == 2
      ms    == duration_ms \div (times * 8)
      r     == LookEach(w, [i \in 1..(times * 8) |->
                              <<Point(4 - (i - 1), 4), Point(4 - (i - 1), 4)>>],
                        ms)
  IN  MkSequence(r.w, r.ids)

\* one round of RoundSpin: the points of the left and of the right eye
Round ==
  << <<Point(6, 4), Point(2, 4)>>, <<Point(6, 3), Point(2, 3)>>,
     <<Point(5, 2), Point(3, 2)>>, <<Point(4, 2), Point(4, 2)>>,
     <<Point(3, 2), Point(5, 2)>>, <<Point(2, 3), Point(6, 3)>>,
     <<Point(2, 4), Point(6, 4)>>, <<Point(2, 5), Point(6, 5)>>,
     <<Point(3, 6), Point(5, 6)>>, <<Point(4, 6), Point(4, 6)>>,
     <<Point(5, 6), Point(3, 6)>>, <<Point(6, 5), Point(2, 5)>>,
     <<Point(6, 4), Point(2, 4)>> >>

RoundSpin(w, duration_ms) ==
  LET times == 2
      ms    == duration_ms \div (times * 13 + 1)
      r     == LookEach(w, << <<Point(6, 4), Point(2, 4)>> >> \o Round \o Round,
                        ms)
  IN  MkSequence(r.w, r.ids)

\* pick_effect, for the outcome i of random.randint(0, 6)
pick_effect(w, i) ==
  CASE i = 0 -> CrossEyes(w, 3000)
    [] i = 1 -> CrazySpin(w, 400)
    [] i = 2 -> MethEyes(w, 3000)
    [] i = 3 -> CrazyBlink(w, 1500)
    [] i = 4 -> LazyEye(w, "left", 2000)
    [] i = 5 -> RoundSpin(w, 400)
    [] OTHER -> MkGlow(w, GlowMs)

\* The random outcomes of one refill: the look point, the factor of the
\* Wait argument, whether to blink, and the effects to play: none, or the
\* one pick_effect draws.
Choice(p, wait, blink, effects) ==
  [p |-> p, wait |-> wait, blink |-> blink, effects |-> effects]

\* the look points under test, of the 16 with x and y in 2..5: the centre
\* and a point off both its row and column
LookPoints == {Point(4, 4), Point(2, 5)}

Choices ==
  {Choice(p, wait, blink, effects) :
     p \in LookPoints, wait \in 5..7, blink \in BOOLEAN,
     effects \in {<<>>} \cup {<<i>> : i \in 0..6}}

\* animation_loop, the body of "if main_sequence.done": the new main
\* sequence; the old one and all its animations are dropped.
Refill(w, c) ==
  LET w1  == LookBoth(Forget(w), c.p, c.p, LookMs)
      w2  == Wait1(w1, c.wait * 500)
      w3  == IF c.blink THEN BlinkBoth(w2, BlinkMs) ELSE w2
      w4  == IF c.effects # <<>> THEN pick_effect(w3, c.effects[1]) ELSE w3
      ids == <<Top(w1), Top(w2)>>
               \o (IF c.blink THEN <<Top(w3)>> ELSE <<>>)
               \o (IF c.effects # <<>> THEN <<Top(w4)>> ELSE <<>>)
  IN  MkSequence(w4, ids)

\* render: left.image(), right.image()
Render(w) == [w EXCEPT !.eyes = [e \in EyeNames |-> EyeImage(w.eyes[e])]]

\* The steps of one iteration, each on the world lw.w, each adding its name
\* to the log lw.log of the iteration.
LoopRefill(lw, c) == [w |-> Refill(lw.w, c), log |-> Append(lw.log, "refill")]
LoopTick(lw, now) ==
  [w |-> Tick(lw.w, Top(lw.w), now), log |-> Append(lw.log, "tick")]
LoopRender(lw) == [w |-> Render(lw.w), log |-> Append(lw.log, "render")]

\* animation_loop, the body of "while(True)" at time now
LoopBodyRenderFirst(w, now, c) ==
  LET lw0 == [w |-> w, log |-> <<>>]
      lw1 == IF w.heap[Top(w)].done THEN LoopRefill(lw0, c) ELSE lw0
  IN  LoopTick(LoopRender(lw1), now)

LoopBody(w, now, c) ==
  LET lw0 == [w |-> w, log |-> <<>>]
      lw1 == IF w.heap[Top(w)].done THEN LoopRefill(lw0, c) ELSE lw0
  IN  LoopRender(LoopTick(lw1, now))

\* What the loop keeps of its last iteration: the steps done, the start
\* time, and the effects drawn for the main sequence it ticked.  Time is counted from the last refill: no animation outlives a
\* refill, and an animation sees only differences of times.
Lap(log, now, effects) == [log |-> log, now |-> now, effects |-> effects]

\* animation_loop before its first iteration: main_sequence is an empty
\* AnimationSequence
InitLoop ==
  LET w == MkSequence(World0, <<>>)
  IN  /\ heap = w.heap
      /\ eyes = w.eyes
      /\ contrast = w.contrast
      /\ err = w.err
      /\ hist = w.hist
      /\ root = Top(w)
      /\ last = Lap(<<>>, 0, <<>>)

\* one iteration of the loop, started at now (an uncaught exception ends
\* the program)
Iterate(now, c) ==
  /\ ~err
  /\ LET r == LoopBody(World, now, c)
     IN  /\ Becomes(r.w)
         /\ root' = Top(r.w)
         /\ last' = Lap(r.log, now,
                        IF heap[root].done THEN c.effects ELSE last.effects)

\* an iteration that finds main_sequence done
IterateDone(c) ==
  /\ heap[root].done
  /\ Iterate(0, c)

\* an iteration that finds main_sequence not done, TICK_SECONDS after the
\* iteration before (the loop sleeps for what is left of TICK_SECONDS; this
\* is the slowest clock the loop can see, and the one it sees when tick and
\* render take less than TICK_SECONDS)
IterateBusy ==
  /\ ~heap[root].done
  /\ last.now + TickMs <= MaxClock
  /\ Iterate(last.now + TickMs, CHOOSE c \in Choices : TRUE)

NextLoop ==
  \/ \E c \in Choices : IterateDone(c)
  \/ IterateBusy

SpecLoop == InitLoop /\ [][NextLoop]_vars

\* An iteration as the loop's record of it shows it: it can be taken when
\* no exception has ended the program and the clock is within MaxClock,
\* and it leaves a new record.  Under SpecLoop the steps that change last
\* are the iterations, and every iteration changes last (a refill follows a
\* tick that did not refill, any other iteration has a later start time).
Iteration ==
  /\ ~err
  /\ heap[root].done \/ last.now + TickMs <= MaxClock
  /\ last' \in {Lap(log, now, effects) :
                  log \in {<<"refill", "tick", "render">>, <<"tick", "render">>},
                  now \in {0, last.now + TickMs},
                  effects \in {c.effects : c \in Choices}}
  /\ last' # last

\* "while(True)": the loop never stops taking iterations
SpecLoopFair == SpecLoop /\ WF_last(Iteration)

(***************************************************************************)
(* Properties of the tick loop.                                            *)
(***************************************************************************)
\* the children the main sequence was made with
Main == hist[root].made

\* the Wait of the main sequence, and its effect (when one was drawn)
MainWait == Main[2]
MainEffect == Main[Len(Main)]

Centre == Point(4, 4)

\* C11: an iteration refills exactly if it finds the main sequence done,
\* then ticks the main sequence with its start time, then renders both
\* eyes; a main sequence that is not done is kept, with all its animations.
\* The log of the iteration is refill (if done), tick, render; the fresh
\* sequence has been ticked once (its first child is begun at the start
\* time and not ticked, the others are untouched); the pixels are the image
\* of the eyes as the tick left them.
C11_IterationOrder ==
  [][ /\ last'.log = IF heap[root].done THEN <<"refill", "tick", "render">>
                                        ELSE <<"tick", "render">>
      /\ hist'[root'].lastOp = "tick" /\ hist'[root'].now = last'.now
      /\ \A e \in EyeNames : eyes'[e] = EyeImage(eyes'[e])
      /\ heap[root].done =>
           LET made == hist'[root'].made
           IN  /\ Len(made) >= 2
               /\ hist'[root'].popped = made[1]
               /\ heap'[made[1]].start = last'.now
               /\ \A i \in 1..Len(made) :
                    /\ ~hist'[made[i]].ticked
                    /\ i > 1 => heap'[made[i]].start = NoTime
      /\ ~heap[root].done =>
           /\ root' = root
           /\ Len(heap') = Len(heap)
           /\ \A id \in Ids :
                /\ hist'[id].made = hist[id].made
                /\ heap'[id].kind = heap[id].kind
                /\ Begun(id) => heap'[id].start = heap[id].start
    ]_vars

\* an iteration has kept the main sequence, in the middle of its blink, and
\* rendered the closed eyelids
C11_Witness ==
  /\ last.log = <<"tick", "render">>
  /\ ~heap[root].done
  /\ hist[root].stepped # NoAnim
  /\ eyes["left"].eyelids = 3
  /\ eyes["left"].pixels # NewEye.pixels

\* C12: the Wait of the main sequence is not done after a tick whose elapsed
\* time is below 2500 ms.  (Wait.__init__ takes the argument as eye, and
\* the duration is the default 300 ms.)
C12_Original ==
  Len(Main) >= 2 =>
    (hist[MainWait].ticked /\ Elapsed(MainWait) < 2500 => ~heap[MainWait].done)

C14_Original ==
  last.effects = <<1>> =>
    LET steps == hist[MainEffect].made
    IN  /\ Len(steps) = 16
        /\ \A i \in 0..15 :
             LET g == steps[i + 1]
             IN  /\ heap[g].kind = "Group"
                 /\ Len(hist[g].made) = 2
                 /\ heap[hist[g].made[1]].kind = "Look"
                 /\ heap[hist[g].made[1]].eye = "left"
                 /\ heap[hist[g].made[2]].kind = "Look"
                 /\ heap[hist[g].made[2]].eye = "right"
                 /\ JustTicked(g) /\ heap[g].done /\ ~hist[g].donePre
                      /\ hist[g].now = last.now =>
                      \A e \in EyeNames : eyes[e].pupil = Point((4 - i) % 8, 4)

\* C18: the loop never ticks a leaf that was not begun (LinearAnimation.tick
\* never reads a start of None), and no animation is begun twice.
C18_BegunOnce ==
  /\ ~err
  /\ \A id \in Ids :
       /\ hist[id].begins <= 1
       /\ IsLeaf(heap[id]) /\ hist[id].ticked => Begun(id) /\ hist[id].begins = 1

\* the second Blink of a CrazyBlink, a leaf of a sequence in the main
\* sequence, after a group of Blinks, is done
C18_Witness ==
  /\ last.effects = <<3>>
  /\ Len(Main) = 4
  /\ heap[hist[MainEffect].made[2]].done
  /\ hist[hist[MainEffect].made[2]].ticked

\* the loop has just refilled the main sequence
Refilled == last.log # <<>> /\ Head(last.log) = "refill"

\* C19: a main sequence that is not done is done later, and the loop
\* refills again and again.
C19_AlwaysRefills ==
  /\ (~heap[root].done) ~> heap[root].done
  /\ []<>Refilled

\* the loop refills after a main sequence with a blink and a RoundSpin
C19_Witness ==
  /\ heap[root].done
  /\ last.effects = <<5>>
  /\ Len(Main) = 4
  /\ last.now > 5000

\* C20: when the main sequence is done, both eyes are open and the contrast
\* the device was given last is 30.
C20_RestAtRefill ==
  heap[root].done =>
    /\ \A e \in EyeNames : eyes[e].eyelids = -1
    /\ contrast = 30

\* a main sequence with a blink and a GlowEyes is done
C20_Witness ==
  /\ heap[root].done
  /\ last.effects = <<6>>
  /\ Len(Main) = 4
  /\ hist[MainEffect].levels = <<27, 30>>

=============================================================================
